---- MODULE Spec2Model ----
(***************************************************************************)
(* Model of the YouTube markdown link refresher (src/utils.py).            *)
(*                                                                         *)
(* outdated_md_info walks the markdown files one after another.  For each  *)
(* file it extracts the links, starts one check_and_update_yt task per     *)
(* link under asyncio.gather, and appends a log entry when at least one    *)
(* task returned a result.  A task suspends at every upstream request      *)
(* (recency lookup, search, full-metadata lookup); the responses arrive in *)
(* any order.  An exception raised in a task leaves gather and ends the    *)
(* run; exit(1) ends the process.                                          *)
(*                                                                         *)
(* Abstractions: a word is a natural number (0 stands for any stop word);  *)
(* a url is the resource id that lines 177-187 extract from it; a          *)
(* candidate title is the set of keywords whose partial_ratio against it   *)
(* is >= 70 plus a flag for the excluded markers; a duration is a number   *)
(* of seconds.                                                             *)
(***************************************************************************)
EXTENDS Integers, Sequences, FiniteSets, TLC

(* ---------------- bounds ---------------- *)
NumDocs == 2        \* markdown files in the run
MaxLinks == 2       \* links extracted from one file
NumIds == 2         \* distinct resource ids (the last one is a playlist)
MaxItems == 2       \* items in one search response
MaxKeywords == 4    \* keywords of a title in the relevance check
MaxCount == 1       \* largest viewCount / likeCount
MaxRunItems == 1    \* items in one search response during a whole run

(* ---------------- program constants ---------------- *)
CurrentYear == 2026
MinSeconds == 300

VARIABLES
    run,                \* "running" | "finished" | "exited" | "crashed"
    cur,                \* index of the markdown file being processed
    phase,              \* "idle": before get_file_yt_info; "gather": awaiting the tasks
    tasks,              \* the check_and_update_yt tasks of the current file
    yt_outdated_cache,  \* utils.yt_outdated_cache: id -> is_outdated
    report,             \* the entries appended to the log file, in order
    lookups,            \* history: upstream recency requests issued, per id
    completed,          \* history: the tasks of the current file in completion order
    published_year,     \* upstream: the year each resource was published
    keywords_in,        \* relevance check: the keyword list
    title_in,           \* relevance check: the candidate title
    relevant_out        \* relevance check: <<>> before the call, <<result>> after

vars == <<run, cur, phase, tasks, yt_outdated_cache, report, lookups, completed,
          published_year, keywords_in, title_in, relevant_out>>

runVars == <<run, cur, phase, tasks, yt_outdated_cache, report, lookups, completed,
             published_year>>
relVars == <<keywords_in, title_in, relevant_out>>

None == <<>>

Ids == 1..NumIds

Max(a, b) == IF a >= b THEN a ELSE b

(* ---------------- pure helpers ---------------- *)

stop_words == {0}

\* extract_keywords: the tokens of the title that are not stop words.
extract_keywords(title) == SelectSeq(title, LAMBDA w : w \notin stop_words)

\* fuzz.partial_ratio(keyword, title_lower) >= 70
partial_ratio_ok(keyword, title) == keyword \in title.hits

RECURSIVE CountMatches(_, _)
CountMatches(keywords, title) ==
    IF keywords = <<>> THEN 0
    ELSE (IF partial_ratio_ok(Head(keywords), title) THEN 1 ELSE 0)
         + CountMatches(Tail(keywords), title)

\* int(len(keywords) * 0.7): truncation of a non-negative product.
IntOf70Percent(n) == (7 * n) \div 10

is_relevant(title, keywords) ==
    IF title.marker THEN FALSE
    ELSE LET matched_keywords == CountMatches(keywords, title)
             threshold == Max(1, IntOf70Percent(Len(keywords)))
         IN  matched_keywords >= threshold

\* dict.get(key, 0) on the statistics of an item
Get(d, key) == IF key \in DOMAIN d THEN d[key] ELSE 0

score(video) ==
    LET stats == IF "statistics" \in DOMAIN video THEN video.statistics
                 ELSE [k \in {} |-> 0]
    IN  Get(stats, "viewCount") + Get(stats, "likeCount")

\* max(results, key=score, default=None): the first item of maximal score.
RECURSIVE FirstMax(_, _)
FirstMax(results, best) ==
    IF results = <<>> THEN best
    ELSE FirstMax(Tail(results),
                  IF score(Head(results)) > score(best) THEN Head(results) ELSE best)

RECURSIVE LastMax(_, _)
LastMax(results, best) ==
    IF results = <<>> THEN best
    ELSE LastMax(Tail(results),
                 IF score(Head(results)) >= score(best) THEN Head(results) ELSE best)

\* Variant: ties go to the last item of maximal score.
get_best_video_last_max(results) ==
    IF results = <<>> THEN None ELSE <<LastMax(Tail(results), Head(results))>>

get_best_video(results) ==
    IF results = <<>> THEN None ELSE <<FirstMax(Tail(results), Head(results))>>

is_long_enough(duration) == duration >= MinSeconds

(* ---------------- inputs and upstream responses ---------------- *)

\* The title of a link: one stop word and two content words.
LinkName == <<0, 1, 2>>

\* The kind get_file_yt_info gives a link ("playlist?" in url).
TypeOf(id) == IF id = NumIds THEN "playlists" ELSE "videos"

\* One entry of get_file_yt_info's result.
LinkRecord(id) == [name |-> LinkName, type |-> TypeOf(id), url |-> id]

RECURSIVE SeqsUpTo(_, _)
SeqsUpTo(S, n) ==
    IF n = 0 THEN {<<>>}
    ELSE LET shorter == SeqsUpTo(S, n - 1)
         IN  shorter \cup {Append(q, x) : q \in {r \in shorter : Len(r) = n - 1}, x \in S}

\* What get_file_yt_info can return for a file.
FileLinks == SeqsUpTo({LinkRecord(id) : id \in Ids}, MaxLinks)

\* publishedAt[:4] of the upstream item: the newest stale year and the oldest fresh one.
Years == {CurrentYear - 3, CurrentYear - 2}

\* Responses to the recency request of is_yt_url_outdated.
LookupResponses == {"ok", "timeout", "forbidden", "empty"}

TitleHit == [marker |-> FALSE, hits |-> {1, 2}]
TitleHalf == [marker |-> FALSE, hits |-> {1}]
TitleMiss == [marker |-> FALSE, hits |-> {}]
TitleShorts == [marker |-> TRUE, hits |-> {1, 2}]

\* One item of a search response: id is {"videoId": n} or {"playlistId": n}.
SearchItem(n, kind, title) ==
    [id |-> IF kind = "video" THEN [videoId |-> n] ELSE [playlistId |-> n],
     snippet |-> [title |-> title]]

RECURSIVE Renumber(_, _)
\* The n-th item of a response is candidate n.
Renumber(kts, n) ==
    IF kts = <<>> THEN <<>>
    ELSE <<SearchItem(n, Head(kts)[1], Head(kts)[2])>> \o Renumber(Tail(kts), n + 1)

SearchResponsesOver(titles, len) ==
    {Renumber(kts, 1) : kts \in SeqsUpTo({"video", "playlist"} \X titles, len)}

\* statistics of a video item: each count may be missing.
Counts == 0..MaxCount
Statistics ==
    {[k \in {} |-> 0]}
    \cup {[viewCount |-> v] : v \in Counts}
    \cup {[viewCount |-> v, likeCount |-> l] : v \in Counts, l \in Counts}

Durations == {MinSeconds - 1, MinSeconds}

\* One item of the full-metadata response for a requested video id.
VideoItem(id, title, duration, stats) ==
    [id |-> id, snippet |-> [title |-> title],
     contentDetails |-> [duration |-> duration], statistics |-> stats]

(* ---------------- check_and_update_yt ---------------- *)

\* The locals of one check_and_update_yt task.  pc is the request the task is
\* suspended at ("lookup", "search", "meta"), "done" once it returned and
\* "raised" once an exception or SystemExit left it.
NewTask(yt_data) ==
    [yt_data |-> yt_data, pc |-> "lookup", outcome |-> "pending",
     is_outdated |-> None, items |-> None, searched |-> FALSE,
     relevant |-> None, survivors |-> None, metadata_calls |-> 0, error |-> "",
     data |-> None, result |-> None]

StrData(text) == [kind |-> "str", status |-> text]
ItemData(item) == [kind |-> "item", item |-> item]

NoSearchResult == "No search result for"
NoRelevantSearch == "No relevant search for"
NoLongVideo == "No relevant video content that is >= 5 mins"
FailedToFetch == "Failed to fetch YouTube data."
UpdatedOk == "Updated successfully!"

\* Variant: the verdict is recorded but the early return of a fresh link is missing.
AfterVerdict_no_early_return(t, is_outdated) ==
    [t EXCEPT !.is_outdated = <<is_outdated>>, !.pc = "search"]

\* Lines 195-198: a fresh link returns None, a stale one starts the search.
AfterVerdict(t, is_outdated) ==
    IF ~is_outdated
    THEN [t EXCEPT !.is_outdated = <<is_outdated>>, !.pc = "done", !.result = None]
    ELSE [t EXCEPT !.is_outdated = <<is_outdated>>, !.pc = "search"]

\* Lines 175-193 up to the first suspension: a cached id takes its verdict from
\* the cache, any other id issues the recency request.
check_and_update_yt(yt_data, cache) ==
    IF yt_data.url \in DOMAIN cache
    THEN AfterVerdict([NewTask(yt_data) EXCEPT !.outcome = "cached"], cache[yt_data.url])
    ELSE NewTask(yt_data)

\* get_new_yt_data on an item whose id is a string (an item of the
\* full-metadata response); new_url is the canonical url of that id.
get_new_yt_data(data, type) ==
    [new_title |-> data.snippet.title, new_url |-> data.id,
     status |-> UpdatedOk,
     duration |-> IF type = "videos" THEN data.contentDetails.duration ELSE 0]

OldFields(yt_data) ==
    [old_title |-> yt_data.name, type |-> yt_data.type, old_url |-> yt_data.url]

Merge(f, g) == [k \in DOMAIN f \cup DOMAIN g |-> IF k \in DOMAIN g THEN g[k] ELSE f[k]]

\* Lines 200-219 for data that get_new_yt_data accepts.
UpdateResult(yt_data, data) ==
    IF data = None
    THEN Merge(OldFields(yt_data), [status |-> FailedToFetch])
    ELSE IF data[1].kind = "str"
    THEN Merge(OldFields(yt_data), [status |-> data[1].status])
    ELSE Merge(OldFields(yt_data), get_new_yt_data(data[1].item, yt_data.type))

\* The task returns an UpdateResult built from what fetch_youtube_data returned.
Returned(t, data) ==
    [t EXCEPT !.pc = "done", !.data = data, !.result = <<UpdateResult(t.yt_data, data)>>]

\* An exception leaves the task.
Raised(t, why) == [t EXCEPT !.pc = "raised", !.error = why]

(* ---------------- fetch_youtube_data ---------------- *)

relevant_items(items, title) ==
    LET keywords == extract_keywords(title)
    IN  SelectSeq(items, LAMBDA item : is_relevant(item.snippet.title, keywords))

video_ids(items) ==
    LET vs == SelectSeq(items, LAMBDA item : "videoId" \in DOMAIN item.id)
    IN  [k \in 1..Len(vs) |-> vs[k].id.videoId]

playlist_items(items) == SelectSeq(items, LAMBDA item : "playlistId" \in DOMAIN item.id)

long_video_items(video_items) ==
    SelectSeq(video_items, LAMBDA item : is_long_enough(item.contentDetails.duration))

\* Variant: the "if not relevant_items" return is missing.
OnSearchResponse_no_relevance_return(t, items) ==
    LET t1 == [t EXCEPT !.items = items, !.searched = TRUE]
        rel == relevant_items(items, t.yt_data.name)
    IN  IF items = <<>>
        THEN Returned(t1, <<StrData(NoSearchResult)>>)
        ELSE IF t.yt_data.type = "videos"
        THEN [t1 EXCEPT !.relevant = SelectSeq(rel, LAMBDA item : "videoId" \in DOMAIN item.id),
                        !.pc = "meta", !.metadata_calls = @ + 1]
        ELSE LET pl == playlist_items(rel)
             IN  IF pl = <<>>
                 THEN Raised([t1 EXCEPT !.relevant = rel], "IndexError")
                 ELSE Raised([t1 EXCEPT !.relevant = rel, !.survivors = pl,
                                        !.data = <<ItemData(pl[1])>>], "TypeError")

\* Lines 318-367 from the search response to the next suspension or the return,
\* followed by lines 200-219 of the caller.
OnSearchResponse(t, items) ==
    LET t1 == [t EXCEPT !.items = items, !.searched = TRUE]
        rel == relevant_items(items, t.yt_data.name)
    IN  IF items = <<>>
        THEN Returned(t1, <<StrData(NoSearchResult)>>)
        ELSE IF rel = <<>>
        THEN Returned(t1, <<StrData(NoRelevantSearch)>>)
        ELSE IF t.yt_data.type = "videos"
        THEN \* get_video_info(video_ids) is awaited
             [t1 EXCEPT !.relevant = SelectSeq(rel, LAMBDA item : "videoId" \in DOMAIN item.id),
                        !.pc = "meta", !.metadata_calls = @ + 1]
        ELSE LET pl == playlist_items(rel)
             IN  IF pl = <<>>
                 THEN \* playlist_items[0] of an empty list
                      Raised([t1 EXCEPT !.relevant = rel], "IndexError")
                 ELSE \* get_new_yt_data adds the id object of a search item to a str
                      Raised([t1 EXCEPT !.relevant = rel, !.survivors = pl,
                                        !.data = <<ItemData(pl[1])>>], "TypeError")

\* Lines 345-363 from the full-metadata response to the return, followed by
\* lines 200-219 of the caller.
OnVideoInfo(t, video_items) ==
    LET long == long_video_items(video_items)
        best == get_best_video(long)
    IN  IF long = <<>>
        THEN Returned(t, <<StrData(NoLongVideo)>>)
        ELSE Returned([t EXCEPT !.survivors = long],
                      IF best = None THEN None ELSE <<ItemData(best[1])>>)

\* The full-metadata responses for the requested videos: one item per id, in
\* the order requested.
VideoInfoResponses(relevant, durations, statistics) ==
    LET ids == video_ids(relevant)
        attrs == [1..Len(ids) -> durations \X statistics]
    IN  {[k \in 1..Len(ids) |->
            VideoItem(ids[k], relevant[k].snippet.title, a[k][1], a[k][2])] : a \in attrs}

(* ---------------- is_yt_url_outdated ---------------- *)

\* Variant: error code 403 is taken for "not stale" instead of ending the process.
is_yt_url_outdated_403_not_fatal(response, year) ==
    CASE response = "timeout" -> [raise |-> "UnboundLocalError"]
      [] response = "forbidden" -> [return |-> FALSE]
      [] response = "empty" -> [raise |-> "IndexError"]
      [] OTHER -> [return |-> CurrentYear - 3 >= year]

\* What the call does with the upstream response: the except branch of a
\* connect timeout falls through to response.json() with response unbound,
\* error code 403 calls exit(1), an empty items list fails at items[0].
is_yt_url_outdated(response, year) ==
    CASE response = "timeout" -> [raise |-> "UnboundLocalError"]
      [] response = "forbidden" -> [raise |-> "SystemExit"]
      [] response = "empty" -> [raise |-> "IndexError"]
      [] OTHER -> [return |-> CurrentYear - 3 >= year]

\* Lines 192-198 from the recency response on.
OnLookupResponse(t, response, year) ==
    LET r == is_yt_url_outdated(response, year)
        t1 == [t EXCEPT !.outcome = response]
    IN  IF "raise" \in DOMAIN r
        THEN Raised(t1, r.raise)
        ELSE AfterVerdict(t1, r.return)

(* ---------------- outdated_md_info ---------------- *)

\* Variant: the return values in the order the tasks completed.
gather_in_completion_order(ts, done_order) ==
    [k \in 1..Len(done_order) |-> ts[done_order[k]].result]

\* results of asyncio.gather: the tasks' return values in the order of the
\* awaitables passed in.
gather(ts, done_order) == [i \in 1..Len(ts) |-> ts[i].result]

RECURSIVE Flatten(_)
Flatten(results) ==
    IF results = <<>> THEN <<>> ELSE Head(results) \o Flatten(Tail(results))

\* Line 246: [res for res in results if res]
outdated_yt_info(results) == Flatten(results)

\* The state of the process after a step of its tasks.
RunAfter(ts) ==
    IF \E i \in 1..Len(ts) : ts[i].pc = "raised" /\ ts[i].error = "SystemExit"
    THEN "exited"
    ELSE IF \E i \in 1..Len(ts) : ts[i].pc = "raised"
    THEN "crashed"
    ELSE "running"

RECURSIVE DoneIn(_, _)
\* The tasks among i..Len(ts) that have returned, in index order.
DoneIn(ts, i) ==
    IF i > Len(ts) THEN <<>>
    ELSE (IF ts[i].pc = "done" THEN <<i>> ELSE <<>>) \o DoneIn(ts, i + 1)

Count(S) == Cardinality(S)

\* Lines 237-242: extract the links of the next file, create the tasks and run
\* each up to its first upstream request.
StartDocument ==
    /\ run = "running" /\ phase = "idle" /\ cur <= NumDocs
    /\ \E yt_info \in FileLinks :
         LET ts == [i \in 1..Len(yt_info) |->
                        check_and_update_yt(yt_info[i], yt_outdated_cache)]
         IN  /\ tasks' = ts
             /\ completed' = DoneIn(ts, 1)
             /\ lookups' = [id \in Ids |->
                   lookups[id] + Count({i \in 1..Len(ts) :
                                           ts[i].pc = "lookup" /\ ts[i].yt_data.url = id})]
    /\ phase' = "gather"
    /\ UNCHANGED <<run, cur, yt_outdated_cache, report, published_year>>
    /\ UNCHANGED relVars

\* A task step: task i becomes t.
TaskStep(i, t) ==
    /\ tasks' = [tasks EXCEPT ![i] = t]
    /\ run' = RunAfter(tasks')
    /\ completed' = IF t.pc = "done" THEN Append(completed, i) ELSE completed
    /\ UNCHANGED <<cur, phase, report, lookups, published_year>>
    /\ UNCHANGED relVars

\* The recency response of task i arrives (lines 162-171, then 193-198).
LookupResponse(i) ==
    /\ run = "running" /\ phase = "gather"
    /\ tasks[i].pc = "lookup"
    /\ \E response \in LookupResponses :
         LET id == tasks[i].yt_data.url
             t == OnLookupResponse(tasks[i], response, published_year[id])
         IN  /\ TaskStep(i, t)
             /\ yt_outdated_cache' =
                   IF t.is_outdated = None THEN yt_outdated_cache
                   ELSE [k \in DOMAIN yt_outdated_cache \cup {id} |->
                            IF k = id THEN t.is_outdated[1] ELSE yt_outdated_cache[k]]

\* The search response of task i arrives.
SearchResponse(i, responses) ==
    /\ run = "running" /\ phase = "gather"
    /\ tasks[i].pc = "search"
    /\ \E items \in responses : TaskStep(i, OnSearchResponse(tasks[i], items))
    /\ UNCHANGED yt_outdated_cache

\* The full-metadata response of task i arrives.
VideoInfoResponse(i, durations, statistics) ==
    /\ run = "running" /\ phase = "gather"
    /\ tasks[i].pc = "meta"
    /\ \E video_items \in VideoInfoResponses(tasks[i].relevant, durations, statistics) :
         TaskStep(i, OnVideoInfo(tasks[i], video_items))
    /\ UNCHANGED yt_outdated_cache

\* Lines 242-254: gather returns once every task has returned; the entry of
\* the file is appended when some task returned a result.
Assemble ==
    /\ run = "running" /\ phase = "gather"
    /\ \A i \in 1..Len(tasks) : tasks[i].pc = "done"
    /\ LET info == outdated_yt_info(gather(tasks, completed))
       IN  report' = IF info # <<>>
                     THEN Append(report, [file |-> cur, yt_info |-> info])
                     ELSE report
    /\ cur' = cur + 1
    /\ phase' = "idle"
    /\ UNCHANGED <<run, tasks, yt_outdated_cache, lookups, completed, published_year>>
    /\ UNCHANGED relVars

\* The loop over the files ends.
Finish ==
    /\ run = "running" /\ phase = "idle" /\ cur > NumDocs
    /\ run' = "finished"
    /\ UNCHANGED <<cur, phase, tasks, yt_outdated_cache, report, lookups, completed,
                   published_year>>
    /\ UNCHANGED relVars

RunSearchResponses == SearchResponsesOver({TitleHit, TitleMiss}, MaxRunItems)
RunDurations == Durations
RunStatistics == {[viewCount |-> MaxCount]}

RelIdle ==
    /\ keywords_in = <<>>
    /\ title_in = TitleMiss
    /\ relevant_out = <<>>

Init ==
    /\ run = "running"
    /\ cur = 1
    /\ phase = "idle"
    /\ tasks = <<>>
    /\ yt_outdated_cache = [k \in {} |-> FALSE]
    /\ report = <<>>
    /\ lookups = [id \in Ids |-> 0]
    /\ completed = <<>>
    /\ published_year \in [Ids -> Years]
    /\ RelIdle

Next ==
    \/ StartDocument
    \/ \E i \in 1..Len(tasks) : LookupResponse(i)
    \/ \E i \in 1..Len(tasks) : SearchResponse(i, RunSearchResponses)
    \/ \E i \in 1..Len(tasks) : VideoInfoResponse(i, RunDurations, RunStatistics)
    \/ Assemble
    \/ Finish

Spec == Init /\ [][Next]_vars

(* ---------------- the candidate search on its own ---------------- *)

Titles == {TitleHit, TitleHalf, TitleMiss, TitleShorts}

\* One link whose recency verdict has just come back stale: its task is
\* suspended at the search request.
InitSearch ==
    /\ run = "running"
    /\ cur = 1
    /\ phase = "gather"
    /\ \E id \in Ids :
         /\ tasks = <<OnLookupResponse(NewTask(LinkRecord(id)), "ok", CurrentYear - 3)>>
         /\ yt_outdated_cache = [k \in {id} |-> TRUE]
         /\ lookups = [k \in Ids |-> IF k = id THEN 1 ELSE 0]
    /\ report = <<>>
    /\ completed = <<>>
    /\ published_year = [id \in Ids |-> CurrentYear - 3]
    /\ RelIdle

NextSearch ==
    \/ \E i \in 1..Len(tasks) : SearchResponse(i, SearchResponsesOver(Titles, MaxItems))
    \/ \E i \in 1..Len(tasks) : VideoInfoResponse(i, Durations, Statistics)
    \/ Assemble

SpecSearch == InitSearch /\ [][NextSearch]_vars

(* ---------------- the relevance check on its own ---------------- *)

KeywordLists == {[k \in 1..n |-> k] : n \in 0..MaxKeywords}

CandidateTitles == [marker : BOOLEAN, hits : SUBSET (1..MaxKeywords)]

InitRel ==
    /\ run = "running"
    /\ cur = 1
    /\ phase = "idle"
    /\ tasks = <<>>
    /\ yt_outdated_cache = [k \in {} |-> FALSE]
    /\ report = <<>>
    /\ lookups = [id \in Ids |-> 0]
    /\ completed = <<>>
    /\ published_year = [id \in Ids |-> CurrentYear - 3]
    /\ keywords_in \in KeywordLists
    /\ title_in \in CandidateTitles
    /\ relevant_out = <<>>

CheckRelevant ==
    /\ relevant_out = <<>>
    /\ relevant_out' = <<is_relevant(title_in, keywords_in)>>
    /\ UNCHANGED <<keywords_in, title_in>>
    /\ UNCHANGED runVars

NextRel == CheckRelevant

SpecRel == InitRel /\ [][NextRel]_vars

(* ======================= claims ======================= *)

TaskIds == 1..Len(tasks)

\* The entry the log holds for a file, as a sequence of zero or one entries.
EntriesOf(file) == SelectSeq(report, LAMBDA e : e.file = file)

RECURSIVE ResultsInLinkOrder(_, _)
\* The results of the tasks i..Len(ts) that returned one, by position of the link.
ResultsInLinkOrder(ts, i) ==
    IF i > Len(ts) THEN <<>>
    ELSE ts[i].result \o ResultsInLinkOrder(ts, i + 1)

StaleTasks == {i \in TaskIds : tasks[i].is_outdated = <<TRUE>>}

\* C1: the upstream recency lookup is issued at most once for each distinct
\* resource id in the process lifetime, also for two links of one file.
C1_AtMostOneLookupPerId == \A id \in Ids : lookups[id] <= 1

\* C2: once a recency lookup has returned error code 403 the run has stopped:
\* the process has exited, the log holds no entry for the file being
\* processed or a later one, and no step follows (no entry is written or
\* changed, no file is extracted, no request is issued).
C2_ForbiddenStopsRun ==
    /\ [](\A i \in TaskIds : tasks[i].outcome = "forbidden" =>
             /\ run = "exited"
             /\ phase = "gather"
             /\ \A k \in DOMAIN report : report[k].file < cur)
    /\ [][(\E i \in TaskIds : tasks[i].outcome = "forbidden") => UNCHANGED vars]_vars

\* C2 witness: a 403 arrives while the second file is processed and the log
\* already holds the entry of the first.
C2_Witness ==
    /\ \E i \in TaskIds : tasks[i].outcome = "forbidden"
    /\ cur = 2
    /\ Len(report) = 1

\* C3: a connect timeout of the recency lookup is recovered locally: the
\* verdict is "not stale", no search is started, the task returns no
\* UpdateResult and the run continues.
C3_TimeoutTreatedAsFresh ==
    \A i \in TaskIds : tasks[i].outcome = "timeout" =>
        /\ tasks[i].is_outdated = <<FALSE>>
        /\ tasks[i].pc = "done"
        /\ ~tasks[i].searched
        /\ tasks[i].result = None
        /\ run # "crashed"

\* C4: a recency response with no item for the id classifies the id as fresh:
\* no search is started, the task returns no UpdateResult and the run continues.
C4_MissingItemIsFresh ==
    \A i \in TaskIds : tasks[i].outcome = "empty" =>
        /\ tasks[i].is_outdated = <<FALSE>>
        /\ tasks[i].pc = "done"
        /\ ~tasks[i].searched
        /\ tasks[i].result = None
        /\ run # "crashed"

\* The search of task i has ended without a survivor: the search response is
\* in, no full-metadata response is awaited and nothing was chosen.
NoCandidate(i) ==
    /\ tasks[i].searched
    /\ tasks[i].pc # "meta"
    /\ tasks[i].survivors = None

\* C5: a stale link whose candidate search yields no survivor at any stage
\* gets exactly one UpdateResult with old_title, type, old_url and an
\* explanatory status and without new_url/new_title; the task returns, so the
\* other links and the following files are still processed.
C5_NoCandidateGivesStatus ==
    \A i \in TaskIds : NoCandidate(i) =>
        /\ tasks[i].pc = "done"
        /\ Len(tasks[i].result) = 1
        /\ DOMAIN tasks[i].result[1] = {"old_title", "type", "old_url", "status"}
        /\ tasks[i].result[1].status \in {NoSearchResult, NoRelevantSearch, NoLongVideo}
        /\ tasks[i].result[1].old_url = tasks[i].yt_data.url

\* C6: every UpdateResult in the log belongs to a link whose verdict was
\* stale, and a file that has been processed has an entry exactly when it has
\* a stale link; a file without links or with fresh links only has none.
C6_EntryIffStaleLink ==
    /\ \A k \in DOMAIN report : report[k].yt_info # <<>> /\ report[k].file < cur
    /\ (phase = "idle" /\ cur > 1) =>
          LET entries == EntriesOf(cur - 1)
          IN  /\ Len(entries) = (IF StaleTasks = {} THEN 0 ELSE 1)
              /\ \A k \in DOMAIN entries :
                    /\ Len(entries[k].yt_info) = Cardinality(StaleTasks)
                    /\ \A r \in DOMAIN entries[k].yt_info :
                          \E i \in StaleTasks :
                             entries[k].yt_info[r].old_url = tasks[i].yt_data.url

\* C6 witness: a processed file with a fresh link and a stale link has an
\* entry holding the one result of the stale link.
C6_Witness ==
    /\ phase = "idle" /\ cur > 1
    /\ \E i \in TaskIds : tasks[i].is_outdated = <<FALSE>>
    /\ Cardinality(StaleTasks) = 1
    /\ Len(EntriesOf(cur - 1)) = 1
    /\ Len(EntriesOf(cur - 1)[1].yt_info) = 1

\* C7: files are processed one after another in input order, a file is
\* assembled only when all its tasks have returned, and its entry lists the
\* results in the order of the links, whatever order the tasks completed in.
C7_ResultsInLinkOrder ==
    /\ \A k \in DOMAIN report : \A l \in DOMAIN report :
          k < l => report[k].file < report[l].file
    /\ \A k \in DOMAIN report : report[k].file < cur
    /\ (phase = "idle" /\ cur > 1) =>
          /\ \A i \in TaskIds : tasks[i].pc = "done"
          /\ \A k \in DOMAIN EntriesOf(cur - 1) :
                EntriesOf(cur - 1)[k].yt_info = ResultsInLinkOrder(tasks, 1)

\* C7 witness: the second link's task returned before the first link's task
\* and the entry still lists the first link's result first.
C7_Witness ==
    /\ phase = "idle" /\ cur > 1
    /\ completed = <<2, 1>>
    /\ Len(EntriesOf(cur - 1)) = 1
    /\ Len(EntriesOf(cur - 1)[1].yt_info) = 2
    /\ EntriesOf(cur - 1)[1].yt_info[1] # EntriesOf(cur - 1)[1].yt_info[2]
    /\ EntriesOf(cur - 1)[1].yt_info[1] = tasks[1].result[1]

NoneRelevant(i) ==
    \A k \in DOMAIN tasks[i].items :
        ~is_relevant(tasks[i].items[k].snippet.title, extract_keywords(tasks[i].yt_data.name))

\* C8: a search response with items of which none passes the relevance filter
\* ends the search with "No relevant search" and the full-metadata lookup is
\* never issued; an empty search response ends it with "No search result"
\* before any relevance or metadata step.
C8_NoRelevantShortCircuits ==
    \A i \in TaskIds : tasks[i].searched =>
        /\ tasks[i].items = <<>> =>
              /\ tasks[i].pc = "done"
              /\ tasks[i].data = <<StrData(NoSearchResult)>>
              /\ tasks[i].metadata_calls = 0
        /\ (tasks[i].items # <<>> /\ NoneRelevant(i)) =>
              /\ tasks[i].pc = "done"
              /\ tasks[i].data = <<StrData(NoRelevantSearch)>>
              /\ tasks[i].result[1].status = NoRelevantSearch
              /\ tasks[i].metadata_calls = 0

\* C8 witness: a video search returned two items, none relevant.
C8_Witness ==
    \E i \in TaskIds :
        /\ tasks[i].searched
        /\ tasks[i].yt_data.type = "videos"
        /\ Len(tasks[i].items) = 2
        /\ NoneRelevant(i)
        /\ tasks[i].pc = "done"

\* C9: the candidate chosen is the survivor of maximal viewCount + likeCount
\* (a missing count is 0), the first such survivor in encounter order; for
\* videos the survivors are the duration-filtered items, for playlists the
\* relevant items of kind playlist.
C9_FirstMaximumChosen ==
    \A i \in TaskIds : tasks[i].survivors # None =>
        LET S == tasks[i].survivors
        IN  /\ tasks[i].data # None
            /\ tasks[i].data[1].kind = "item"
            /\ \E k \in DOMAIN S :
                  /\ S[k] = tasks[i].data[1].item
                  /\ \A j \in DOMAIN S : score(S[j]) <= score(S[k])
                  /\ \A j \in DOMAIN S : j < k => score(S[j]) < score(S[k])

\* C9 witness: of two long-enough videos the second has the strictly larger
\* score and is the one chosen.
C9_Witness ==
    \E i \in TaskIds :
        /\ tasks[i].yt_data.type = "videos"
        /\ Len(tasks[i].survivors) = 2
        /\ score(tasks[i].survivors[1]) < score(tasks[i].survivors[2])
        /\ tasks[i].data = <<ItemData(tasks[i].survivors[2])>>
        /\ tasks[i].result[1].new_url = tasks[i].survivors[2].id

\* ceil(0.7 * n)
CeilOf70Percent(n) == (7 * n + 9) \div 10

\* C10: a title free of the excluded markers is kept exactly when the number
\* of keywords that fuzzy-match it is at least max(1, ceil(0.7 * n)).
C10_CeilThreshold ==
    (relevant_out # <<>> /\ ~title_in.marker) =>
        relevant_out[1] =
            (Cardinality({k \in DOMAIN keywords_in : keywords_in[k] \in title_in.hits})
                >= Max(1, CeilOf70Percent(Len(keywords_in))))

====
